---- MODULE Spec2Model ----
(***************************************************************************)
(* Model of the admission-control scheduler of HybridLLMGateway:           *)
(* backend/app/services/request_scheduler.py (class RequestScheduler),     *)
(* driven by backend/app/api/request.py (create_llm_request) and the       *)
(* periodic job of backend/app/main.py (update_system_stats_job).          *)
(*                                                                         *)
(* Everything runs on one asyncio event loop, so the code between two      *)
(* awaits that really suspend is one atomic step.  The suspension points   *)
(* are: the generation call (request_scheduler.py:53, :152) and the two    *)
(* sleeps of the dispatch loop (:119, :131).  Queue.put and Queue.get on   *)
(* an unbounded, non-empty asyncio.Queue return without suspending.        *)
(* db.commit() is the record store collaborator and is taken to succeed.   *)
(***************************************************************************)
EXTENDS Integers, Sequences, FiniteSets, TLC

\* ---------------------------------------------------------------- bounds
\* largest configured MAX_CONCURRENT_REQUESTS explored (smallest is 2)
MaxConcurrentBound == 4
\* number of realtime requests that arrive
NumRealtime == 2
\* number of task requests that arrive
NumTask == 2
\* dispatch loop instances the model can represent
MaxLoops == 2
\* the realtime burst: largest configured limit and number of realtime
\* requests that arrive
ScenarioMaxConcurrent == 10
ScenarioRealtime == 8
\* the task backlog: number of task requests that arrive
ScenarioTasks == 5
\* the task backlog: the configured TASK_REQUEST_CAP
ScenarioCap == 3

LoopIds == 1..MaxLoops
\* RateLimitMiddleware.dispatch: requests allowed per window
max_requests == 100
\* measured latencies (ms, scaled) and the configured LATENCY_THRESHOLD values;
\* a call that raises is a slow one (the case in which a failed job could
\* distort the average)
Latencies == {1, 4}
FailureLatencies == {4}
Thresholds == {2}
\* ways the awaited generation call can end
Outcomes == {"ok", "raise", "cancel"}

VARIABLES
    max_concurrent_requests,   \* settings.MAX_CONCURRENT_REQUESTS
    latency_threshold,         \* settings.LATENCY_THRESHOLD
    active_realtime_requests,
    active_task_requests,
    task_request_cap,
    task_queue,                \* asyncio.Queue: sequence of task job ids
    is_running,
    loop_pc,                   \* per _process_task_queue instance
    rt_pc,                     \* per handle_realtime_request call
    task_pc,                   \* per task job / _execute_task_request unit
    status,                    \* Request.status of every job
    latency,                   \* Request.latency of every job (0 = NULL)
    gen_result,                \* how the job's generate call ended ("none" = not yet)
    cap_seen,                  \* per loop: task_request_cap read by the iteration
                               \* now in its post-launch sleep (0 otherwise)
    stats,                     \* the SystemStats row built and added by the
                               \* update_system_stats call of the step just
                               \* taken (<<>> after any other step)
    rl_count,                  \* RateLimitMiddleware: redis value of the client's
                               \* rate_limit key (0 = no key)
    rl_last                    \* RateLimitMiddleware: what dispatch did with the
                               \* latest request

vars == <<max_concurrent_requests, latency_threshold, active_realtime_requests,
          active_task_requests, task_request_cap, task_queue, is_running,
          loop_pc, rt_pc, task_pc, status, latency, gen_result, cap_seen,
          stats, rl_count, rl_last>>

\* RateLimitMiddleware before the first request
NoRequest == [read |-> 0, raised |-> "none", forwarded |-> FALSE, response |-> "none"]

\* the middleware's state and the scheduler's
rate_limit == <<rl_count, rl_last>>
scheduler == <<max_concurrent_requests, latency_threshold,
               active_realtime_requests, active_task_requests,
               task_request_cap, task_queue, is_running, loop_pc, rt_pc,
               task_pc, status, latency, gen_result, cap_seen, stats>>

config == <<max_concurrent_requests, latency_threshold>>

\* ------------------------------------------------------------- helpers
Max(a, b) == IF a >= b THEN a ELSE b
Min(a, b) == IF a <= b THEN a ELSE b

RECURSIVE SumLatency(_)
SumLatency(S) ==
    IF S = {} THEN 0
    ELSE LET j == CHOOSE x \in S : TRUE IN latency[j] + SumLatency(S \ {j})

\* a >= m * 0.7 and a >= m * 0.4 in floating point agree with the exact
\* comparisons 10a >= 7m and 10a >= 4m for every m in the explored range;
\* int(m * 0.1) = m \div 10 and int(m * 0.3) = (3m) \div 10.
\* variant: the severe threshold is tested with > instead of >=
LoadShed_StrictThreshold(a, m, cap) ==
    IF 10 * a > 7 * m THEN Max(1, m \div 10)
    ELSE IF 10 * a >= 4 * m THEN Max(2, (3 * m) \div 10)
    ELSE IF a > 0 THEN Max(3, m - a - 1)
    ELSE cap

\* variant: the moderate band keeps 70% of the limit instead of 30%
LoadShed_ModerateSeventy(a, m, cap) ==
    IF 10 * a >= 7 * m THEN Max(1, m \div 10)
    ELSE IF 10 * a >= 4 * m THEN Max(2, (7 * m) \div 10)
    ELSE IF a > 0 THEN Max(3, m - a - 1)
    ELSE cap

LoadShed(a, m, cap) ==
    IF 10 * a >= 7 * m THEN Max(1, m \div 10)
    ELSE IF 10 * a >= 4 * m THEN Max(2, (3 * m) \div 10)
    ELSE IF a > 0 THEN Max(3, m - a - 1)
    ELSE cap

\* variant: an idle system gets the whole task range back
Recover_FullRestore(a, m, cap) ==
    IF a = 0 THEN m - 1
    ELSE IF 10 * a < 4 * m THEN Min(m - 1, cap + 1)
    ELSE cap

\* variant: the idle branch relaxes by one step instead of restoring m - 2
Recover_GradualAtIdle(a, m, cap) ==
    IF 10 * a < 4 * m THEN Min(m - 1, cap + 1)
    ELSE cap

\* variant: the relaxation step is not clamped to m - 1
Recover_Unclamped(a, m, cap) ==
    IF a = 0 THEN m - 2
    ELSE IF 10 * a < 4 * m THEN cap + 1
    ELSE cap

Recover(a, m, cap) ==
    IF a = 0 THEN m - 2
    ELSE IF 10 * a < 4 * m THEN Min(m - 1, cap + 1)
    ELSE cap

\* variants: the decrement sits at the end of the try body; the decrement is
\* done in the except block and again, unclamped, in the finally block
RealtimeExitCount_OnSuccessOnly(a, outcome) == IF outcome = "ok" THEN Max(0, a - 1) ELSE a
TaskExitCount_OnSuccessOnly(a, outcome) == IF outcome = "ok" THEN Max(0, a - 1) ELSE a
RealtimeExitCount_Twice(a, outcome) == IF outcome = "raise" THEN a - 2 ELSE a - 1

\* the finally blocks: max(0, counter - 1)
RealtimeExitCount(a, outcome) == Max(0, a - 1)
\* variant: the finally block does not give the slot back
TaskExitCount_NeverReleased(a, outcome) == a

\* variant: the finally block gives back two slots
TaskExitCount_Twice(a, outcome) == Max(0, a - 2)

TaskExitCount(a, outcome) == Max(0, a - 1)

\* variant: a failed job is put back to pending for a retry
ExitStatus_Retry(outcome) ==
    CASE outcome = "ok" -> "completed"
      [] outcome = "raise" -> "pending"
      [] OTHER -> "processing"

\* status written by the code that runs after the generation call: the try
\* body on return, the except Exception block on a raise; a cancellation
\* (CancelledError, not an Exception) passes both and leaves the status as is
ExitStatus(outcome) ==
    CASE outcome = "ok" -> "completed"
      [] outcome = "raise" -> "failed"
      [] OTHER -> "processing"

\* latency the exit code can record for an outcome
Measured(outcome) == IF outcome = "raise" THEN FailureLatencies ELSE Latencies

\* stats is a local of update_system_stats: no other step builds a row
NoSnapshot == stats' = <<>>

\* ---------------------------------------------------------------- Init
\* the requests of a run are the records created for it: realtime requests are
\* numbered before task requests, each kind in arrival order
RealtimeJobs == DOMAIN rt_pc
TaskJobs == DOMAIN task_pc
Jobs == DOMAIN status

\* the scheduler after construction, for a configured limit drawn from ms and
\* the request records rts (realtime) and tasks (task)
InitScheduler(ms, rts, tasks) ==
    /\ max_concurrent_requests \in ms
    /\ latency_threshold \in Thresholds
    /\ active_realtime_requests = 0
    /\ active_task_requests = 0
    /\ task_request_cap \in 1..(max_concurrent_requests - 1)
    /\ task_queue = <<>>
    /\ is_running = FALSE
    /\ loop_pc = [l \in LoopIds |-> "dead"]
    /\ rt_pc = [j \in rts |-> "new"]
    /\ task_pc = [j \in tasks |-> "new"]
    /\ status = [j \in rts \cup tasks |-> "pending"]
    /\ latency = [j \in rts \cup tasks |-> 0]
    /\ gen_result = [j \in rts \cup tasks |-> "none"]
    /\ cap_seen = [l \in LoopIds |-> 0]
    /\ stats = <<>>
    /\ rl_count = 0
    /\ rl_last = NoRequest

Init ==
    InitScheduler(2..MaxConcurrentBound, 1..NumRealtime,
                  (NumRealtime + 1)..(NumRealtime + NumTask))

\* ------------------------------------------------------- realtime path
\* variant: realtime admission gated by the total capacity
RealtimeAdmissible_Capped ==
    active_realtime_requests + active_task_requests < max_concurrent_requests

\* handle_realtime_request has no admission condition: nothing is tested
\* before the counter is incremented.
RealtimeAdmissible == TRUE

\* create_llm_request (realtime branch) calling handle_realtime_request up to
\* its await of generate.  Requests are labelled in arrival order.
handle_realtime_request_admit(j) ==
    /\ rt_pc[j] = "new"
    /\ \A k \in RealtimeJobs : k < j => rt_pc[k] # "new"
    /\ RealtimeAdmissible
    /\ active_realtime_requests' = active_realtime_requests + 1
    /\ task_request_cap' = LoadShed(active_realtime_requests + 1,
                                    max_concurrent_requests, task_request_cap)
    /\ status' = [status EXCEPT ![j] = "processing"]
    /\ rt_pc' = [rt_pc EXCEPT ![j] = "generating"]
    /\ NoSnapshot
    /\ UNCHANGED <<rate_limit, config, active_task_requests, task_queue, is_running,
                   loop_pc, task_pc, latency, gen_result, cap_seen>>

\* the generation call returns, raises (or times out) or is cancelled; the
\* rest of handle_realtime_request and of create_llm_request runs.
handle_realtime_request_exit(j, outcome, lat) ==
    /\ rt_pc[j] = "generating"
    /\ lat \in Measured(outcome)
    /\ gen_result' = [gen_result EXCEPT ![j] = outcome]
    /\ status' = [status EXCEPT ![j] = ExitStatus(outcome)]
    /\ latency' = [latency EXCEPT ![j] = IF outcome = "cancel" THEN @ ELSE lat]
    /\ active_realtime_requests' = RealtimeExitCount(active_realtime_requests, outcome)
    /\ task_request_cap' = Recover(active_realtime_requests',
                                   max_concurrent_requests, task_request_cap)
    /\ rt_pc' = [rt_pc EXCEPT ![j] = "exited"]
    /\ NoSnapshot
    /\ UNCHANGED <<rate_limit, config, active_task_requests, task_queue, is_running,
                   loop_pc, task_pc, cap_seen>>

\* ----------------------------------------------------------- task path
\* the slot a newly created loop instance takes
FreeLoop ==
    CHOOSE l \in LoopIds :
        loop_pc[l] = "dead" /\ \A k \in LoopIds : loop_pc[k] = "dead" => l <= k

\* variant: the is_running test is missing
StartsLoop_Always == TRUE

\* variant: the is_running test is inverted
StartsLoop_Inverted == is_running

\* if not self.is_running
StartsLoop == ~is_running

\* variant: the queue inserts at the head
Enqueue_Front(q, j) == <<j>> \o q

\* task_queue.put
Enqueue(q, j) == Append(q, j)

\* handle_task_request, run as a background task of create_llm_request.
\* Task jobs are labelled in the order of their handle_task_request calls.
handle_task_request(j) ==
    /\ task_pc[j] = "new"
    /\ \A k \in TaskJobs : k < j => task_pc[k] # "new"
    /\ task_queue' = Enqueue(task_queue, j)
    /\ task_pc' = [task_pc EXCEPT ![j] = "queued"]
    /\ IF StartsLoop
       THEN /\ \E l \in LoopIds : loop_pc[l] = "dead"
            /\ is_running' = TRUE
            /\ loop_pc' = [loop_pc EXCEPT ![FreeLoop] = "start"]
       ELSE UNCHANGED <<is_running, loop_pc>>
    /\ NoSnapshot
    /\ UNCHANGED <<rate_limit, config, active_realtime_requests, active_task_requests,
                   task_request_cap, rt_pc, status, latency, gen_result,
                   cap_seen>>

\* variant: the 50 ms sleep may end before the unit just created has run
LoopResumes_Unordered(l) == loop_pc[l] \in {"start", "backoff", "pause"}

\* A loop instance resumes: it was just created, or one of its sleeps ended.
\* A unit created by the previous iteration is already in the event loop's
\* ready queue when the 50 ms sleep is scheduled, so it has run its first
\* step before the loop resumes.
LoopResumes(l) ==
    /\ loop_pc[l] \in {"start", "backoff", "pause"}
    /\ loop_pc[l] = "pause" => \A j \in TaskJobs : task_pc[j] # "created"

\* variant: the head is read but not removed
RestQueue_Peek(q) == q

\* task_queue.get
NextJob(q) == Head(q)
RestQueue(q) == Tail(q)

\* variant: the cap check is off by one
\* variant: the cap test is missing
AtCapacity_Never == FALSE

AtCapacity_OffByOne == active_task_requests > task_request_cap

\* if self.active_task_requests >= self.task_request_cap
AtCapacity == active_task_requests >= task_request_cap

\* variant: the loop ends on an empty queue without clearing is_running
process_task_queue_shutdown_KeepsFlag(l) ==
    /\ LoopResumes(l)
    /\ task_queue = <<>>
    /\ loop_pc' = [loop_pc EXCEPT ![l] = "dead"]
    /\ cap_seen' = [cap_seen EXCEPT ![l] = 0]
    /\ NoSnapshot
    /\ UNCHANGED <<rate_limit, config, active_realtime_requests, active_task_requests,
                   task_request_cap, task_queue, is_running, rt_pc, task_pc,
                   status, latency, gen_result>>

\* _process_task_queue, an iteration that finds the queue empty
process_task_queue_shutdown(l) ==
    /\ LoopResumes(l)
    /\ task_queue = <<>>
    /\ is_running' = FALSE
    /\ loop_pc' = [loop_pc EXCEPT ![l] = "dead"]
    /\ cap_seen' = [cap_seen EXCEPT ![l] = 0]
    /\ NoSnapshot
    /\ UNCHANGED <<rate_limit, config, active_realtime_requests, active_task_requests,
                   task_request_cap, task_queue, rt_pc, task_pc, status,
                   latency, gen_result>>

\* variant: at the cap the loop ends (break) instead of sleeping and re-checking
process_task_queue_backoff_Exits(l) ==
    /\ LoopResumes(l)
    /\ task_queue # <<>>
    /\ AtCapacity
    /\ is_running' = FALSE
    /\ loop_pc' = [loop_pc EXCEPT ![l] = "dead"]
    /\ cap_seen' = [cap_seen EXCEPT ![l] = 0]
    /\ NoSnapshot
    /\ UNCHANGED <<rate_limit, config, active_realtime_requests,
                   active_task_requests, task_request_cap, task_queue, rt_pc,
                   task_pc, status, latency, gen_result>>

\* _process_task_queue, an iteration that finds the cap reached
process_task_queue_backoff(l) ==
    /\ LoopResumes(l)
    /\ task_queue # <<>>
    /\ AtCapacity
    /\ loop_pc' = [loop_pc EXCEPT ![l] = "backoff"]
    /\ cap_seen' = [cap_seen EXCEPT ![l] = 0]
    /\ NoSnapshot
    /\ UNCHANGED <<rate_limit, config, active_realtime_requests, active_task_requests,
                   task_request_cap, task_queue, is_running, rt_pc, task_pc,
                   status, latency, gen_result>>

\* _process_task_queue, an iteration that takes a job and creates its unit
process_task_queue_launch(l) ==
    /\ LoopResumes(l)
    /\ task_queue # <<>>
    /\ ~AtCapacity
    /\ task_queue' = RestQueue(task_queue)
    /\ task_pc' = [task_pc EXCEPT ![NextJob(task_queue)] = "created"]
    /\ cap_seen' = [cap_seen EXCEPT ![l] = task_request_cap]
    /\ loop_pc' = [loop_pc EXCEPT ![l] = "pause"]
    /\ NoSnapshot
    /\ UNCHANGED <<rate_limit, config, active_realtime_requests, active_task_requests,
                   task_request_cap, is_running, rt_pc, status, latency,
                   gen_result>>

\* _execute_task_request up to its await of generate
execute_task_request_start(j) ==
    /\ task_pc[j] = "created"
    /\ active_task_requests' = active_task_requests + 1
    /\ status' = [status EXCEPT ![j] = "processing"]
    /\ task_pc' = [task_pc EXCEPT ![j] = "running"]
    /\ NoSnapshot
    /\ UNCHANGED <<rate_limit, config, active_realtime_requests, task_request_cap,
                   task_queue, is_running, loop_pc, rt_pc, latency,
                   gen_result, cap_seen>>

\* variant: the unit has no except block, so a raise escapes it and ends the
\* dispatch loop through the loop's own handler
execute_task_request_exit_Propagates(j, outcome, lat) ==
    /\ task_pc[j] = "running"
    /\ lat \in Measured(outcome)
    /\ gen_result' = [gen_result EXCEPT ![j] = outcome]
    /\ status' = [status EXCEPT ![j] = ExitStatus(outcome)]
    /\ latency' = [latency EXCEPT ![j] = IF outcome = "cancel" THEN @ ELSE lat]
    /\ active_task_requests' = TaskExitCount(active_task_requests, outcome)
    /\ task_pc' = [task_pc EXCEPT ![j] = "exited"]
    /\ is_running' = IF outcome = "raise" THEN FALSE ELSE is_running
    /\ loop_pc' = IF outcome = "raise" THEN [l \in LoopIds |-> "dead"] ELSE loop_pc
    /\ NoSnapshot
    /\ UNCHANGED <<rate_limit, config, active_realtime_requests, task_request_cap,
                   task_queue, rt_pc, cap_seen>>

\* variant: the unit's finally block also restores the cap when no task is left
execute_task_request_exit_RestoresCap(j, outcome, lat) ==
    /\ task_pc[j] = "running"
    /\ lat \in Measured(outcome)
    /\ gen_result' = [gen_result EXCEPT ![j] = outcome]
    /\ status' = [status EXCEPT ![j] = ExitStatus(outcome)]
    /\ latency' = [latency EXCEPT ![j] = IF outcome = "cancel" THEN @ ELSE lat]
    /\ active_task_requests' = TaskExitCount(active_task_requests, outcome)
    /\ task_pc' = [task_pc EXCEPT ![j] = "exited"]
    /\ task_request_cap' = IF active_task_requests' = 0
                           THEN max_concurrent_requests - 2 ELSE task_request_cap
    /\ NoSnapshot
    /\ UNCHANGED <<rate_limit, config, active_realtime_requests,
                   task_queue, is_running, loop_pc, rt_pc, cap_seen>>

\* the generation call ends; the rest of _execute_task_request runs
execute_task_request_exit(j, outcome, lat) ==
    /\ task_pc[j] = "running"
    /\ lat \in Measured(outcome)
    /\ gen_result' = [gen_result EXCEPT ![j] = outcome]
    /\ status' = [status EXCEPT ![j] = ExitStatus(outcome)]
    /\ latency' = [latency EXCEPT ![j] = IF outcome = "cancel" THEN @ ELSE lat]
    /\ active_task_requests' = TaskExitCount(active_task_requests, outcome)
    /\ task_pc' = [task_pc EXCEPT ![j] = "exited"]
    /\ NoSnapshot
    /\ UNCHANGED <<rate_limit, config, active_realtime_requests, task_request_cap,
                   task_queue, is_running, loop_pc, rt_pc, cap_seen>>

\* ------------------------------------------------------ stats aggregator
\* the query: status == "completed" (every job of a run is inside the window)
\* variant: the status filter also lets failed requests through
RecentCompleted_AnyFinished == {j \in Jobs : status[j] \in {"completed", "failed"}}

RecentCompleted == {j \in Jobs : status[j] = "completed"}

\* avg_latency > latency_threshold, with avg_latency = 0.0 for an empty set
HighLatency ==
    LET n == Cardinality(RecentCompleted) IN
    IF n = 0 THEN 0 > latency_threshold
    ELSE SumLatency(RecentCompleted) > latency_threshold * n

\* variants: the decrement has no floor; the idle test is missing
Feedback_NoFloor(high, a, m, cap) ==
    IF high THEN cap - 1
    ELSE IF a = 0 /\ cap < m - 1 THEN cap + 1
    ELSE cap

Feedback_NoIdleTest(high, a, m, cap) ==
    IF high THEN Max(1, cap - 1)
    ELSE IF cap < m - 1 THEN cap + 1
    ELSE cap

\* variant: an idle cycle restores the whole capacity at once
Feedback_JumpToFull(high, a, m, cap) ==
    IF high THEN Max(1, cap - 1)
    ELSE IF a = 0 /\ cap < m - 1 THEN m - 1
    ELSE cap

\* variant: the idle branch is missing
Feedback_NoReclaim(high, a, m, cap) ==
    IF high THEN Max(1, cap - 1) ELSE cap

Feedback(high, a, m, cap) ==
    IF high THEN Max(1, cap - 1)
    ELSE IF a = 0 /\ cap < m - 1 THEN cap + 1
    ELSE cap

update_system_stats ==
    /\ stats' = <<active_realtime_requests, active_task_requests, Len(task_queue)>>
    /\ task_request_cap' = Feedback(HighLatency, active_realtime_requests,
                                    max_concurrent_requests, task_request_cap)
    /\ UNCHANGED <<rate_limit, config, active_realtime_requests, active_task_requests,
                   task_queue, is_running, loop_pc, rt_pc, task_pc, status,
                   latency, gen_result, cap_seen>>

\* ---------------------------------------------------------------- Next
Next ==
    \/ \E j \in RealtimeJobs : handle_realtime_request_admit(j)
    \/ \E j \in RealtimeJobs, o \in Outcomes, lat \in Latencies :
          handle_realtime_request_exit(j, o, lat)
    \/ \E j \in TaskJobs : handle_task_request(j)
    \/ \E l \in LoopIds : process_task_queue_shutdown(l)
    \/ \E l \in LoopIds : process_task_queue_backoff(l)
    \/ \E l \in LoopIds : process_task_queue_launch(l)
    \/ \E j \in TaskJobs : execute_task_request_start(j)
    \/ \E j \in TaskJobs, o \in Outcomes, lat \in Latencies :
          execute_task_request_exit(j, o, lat)
    \/ update_system_stats

Spec == Init /\ [][Next]_vars

\* ------------------------------------------------------ rate limiting
\* RateLimitMiddleware.dispatch for one client address. redis_ok is whether
\* the redis calls succeed. The HTTPException raised at the limit is an
\* Exception raised inside the try block, so the handler that follows catches
\* it, prints it and falls through to call_next like any redis error.
dispatch(redis_ok) ==
    /\ rl_count' = IF ~redis_ok THEN rl_count
                   ELSE IF rl_count # 0
                        THEN IF rl_count >= max_requests THEN rl_count
                             ELSE rl_count + 1
                        ELSE 1
    /\ rl_last' = [read |-> IF redis_ok THEN rl_count ELSE 0,
                   raised |-> IF ~redis_ok THEN "redis"
                              ELSE IF rl_count >= max_requests THEN "429"
                              ELSE "none",
                   forwarded |-> TRUE,
                   response |-> "downstream"]
    /\ UNCHANGED scheduler

\* the key set by setex expires at the end of its 60 s window
window_expires ==
    /\ rl_count # 0
    /\ rl_count' = 0
    /\ UNCHANGED <<rl_last, scheduler>>

InitRateLimit == InitScheduler({2}, {}, {})

NextRateLimit ==
    \/ \E redis_ok \in BOOLEAN : dispatch(redis_ok)
    \/ window_expires

SpecRateLimit == InitRateLimit /\ [][NextRateLimit]_vars

\* ------------------------------------------------------- fair scheduling
\* the awaited generation call returns or raises (it is never cancelled)
ReturningOutcomes == {"ok", "raise"}

NextLive ==
    \/ \E j \in RealtimeJobs : handle_realtime_request_admit(j)
    \/ \E j \in RealtimeJobs, o \in ReturningOutcomes, lat \in Latencies :
          handle_realtime_request_exit(j, o, lat)
    \/ \E j \in TaskJobs : handle_task_request(j)
    \/ \E l \in LoopIds : process_task_queue_shutdown(l)
    \/ \E l \in LoopIds : process_task_queue_backoff(l)
    \/ \E l \in LoopIds : process_task_queue_launch(l)
    \/ \E j \in TaskJobs : execute_task_request_start(j)
    \/ \E j \in TaskJobs, o \in ReturningOutcomes, lat \in Latencies :
          execute_task_request_exit(j, o, lat)
    \/ update_system_stats

\* the event loop runs the dispatch loop and every execution unit when they
\* are ready, and each awaited generation call ends; requests arrive, and the
\* 5 s statistics job fires, at no guaranteed rate
FairLive ==
    /\ WF_vars(\E l \in LoopIds : process_task_queue_shutdown(l))
    /\ WF_vars(\E l \in LoopIds : process_task_queue_backoff(l))
    /\ WF_vars(\E l \in LoopIds : process_task_queue_launch(l))
    /\ WF_vars(\E j \in TaskJobs : execute_task_request_start(j))
    /\ WF_vars(\E j \in TaskJobs, o \in ReturningOutcomes, lat \in Latencies :
                  execute_task_request_exit(j, o, lat))
    /\ WF_vars(\E j \in RealtimeJobs, o \in ReturningOutcomes, lat \in Latencies :
                  handle_realtime_request_exit(j, o, lat))

SpecLive == Init /\ [][NextLive]_vars /\ FairLive

\* the statistics job: APScheduler fires update_system_stats_job every 5 s
FairStats == WF_vars(update_system_stats)

\* the cap's two writers alone: realtime requests and the statistics job (the
\* task path never assigns task_request_cap)
InitStats == InitScheduler(2..MaxConcurrentBound, 1..NumRealtime, {})

NextStats ==
    \/ \E j \in RealtimeJobs : handle_realtime_request_admit(j)
    \/ \E j \in RealtimeJobs, o \in Outcomes, lat \in Latencies :
          handle_realtime_request_exit(j, o, lat)
    \/ update_system_stats

SpecStats == InitStats /\ [][NextStats]_vars /\ FairStats

\* --------------------------------------------------- the realtime burst
\* only realtime requests arrive, every generation call returns, and
\* update_system_stats runs on its 5 s schedule
InitRealtime == InitScheduler(2..ScenarioMaxConcurrent, 1..ScenarioRealtime, {})

NextRealtime ==
    \/ \E j \in RealtimeJobs : handle_realtime_request_admit(j)
    \/ \E j \in RealtimeJobs, lat \in Latencies :
          handle_realtime_request_exit(j, "ok", lat)
    \/ update_system_stats

SpecRealtime == InitRealtime /\ [][NextRealtime]_vars

\* ------------------------------------------------------ the task backlog
\* only task requests arrive, every generation call returns quickly, and the
\* limit is one above the configured cap, so that update_system_stats finds
\* nothing to adjust
InitTasks ==
    /\ InitScheduler({ScenarioCap + 1}, {}, 1..ScenarioTasks)
    /\ task_request_cap = ScenarioCap

FastLatencies == {lat \in Latencies : lat <= latency_threshold}

NextTasks ==
    \/ \E j \in TaskJobs : handle_task_request(j)
    \/ \E l \in LoopIds : process_task_queue_shutdown(l)
    \/ \E l \in LoopIds : process_task_queue_backoff(l)
    \/ \E l \in LoopIds : process_task_queue_launch(l)
    \/ \E j \in TaskJobs : execute_task_request_start(j)
    \/ \E j \in TaskJobs, lat \in FastLatencies :
          execute_task_request_exit(j, "ok", lat)
    \/ update_system_stats

\* the event loop runs every ready coroutine and fires every due timer, the
\* submitted requests reach handle_task_request, and each awaited generation
\* call returns
FairTasks ==
    /\ WF_vars(\E j \in TaskJobs : handle_task_request(j))
    /\ WF_vars(\E l \in LoopIds : process_task_queue_shutdown(l))
    /\ WF_vars(\E l \in LoopIds : process_task_queue_backoff(l))
    /\ WF_vars(\E l \in LoopIds : process_task_queue_launch(l))
    /\ WF_vars(\E j \in TaskJobs : execute_task_request_start(j))
    /\ WF_vars(\E j \in TaskJobs, lat \in FastLatencies :
                  execute_task_request_exit(j, "ok", lat))

SpecTasks == InitTasks /\ [][NextTasks]_vars /\ FairTasks

\* ============================================================== claims
Generating == {j \in RealtimeJobs : rt_pc[j] = "generating"}
LiveLoops == {l \in LoopIds : loop_pc[l] # "dead"}
Started(j) == task_pc[j] \in {"running", "exited"}
RealtimeExits == \E j \in RealtimeJobs : rt_pc[j] = "generating" /\ rt_pc'[j] = "exited"

\* C1: in every reachable state task_request_cap is an integer with
\* 1 <= task_request_cap <= max_concurrent_requests - 1, for every configured
\* max_concurrent_requests > 1 and every initial cap inside that range.
C1_CapInRange ==
    /\ task_request_cap \in Int
    /\ 1 <= task_request_cap
    /\ task_request_cap <= max_concurrent_requests - 1

\* C2: at most one _process_task_queue instance is active at any time,
\* whatever the interleaving of handle_task_request calls and loop shutdowns.
C2_OneLoop == Cardinality(LiveLoops) <= 1

\* C2 witness: a second handle_task_request call arrived while a loop was live.
C2_Witness ==
    /\ Cardinality(LiveLoops) = 1
    /\ \A j \in TaskJobs : task_pc[j] # "new"
    /\ Len(task_queue) >= 1

\* C3: when a launched unit increments active_task_requests, the result does
\* not exceed the task_request_cap its launching iteration read in the check
\* made before the launch.
C3_NoOvershoot ==
    [][\A j \in TaskJobs :
          (task_pc[j] = "created" /\ task_pc'[j] = "running")
          => \E l \in LoopIds : /\ loop_pc[l] = "pause"
                                /\ active_task_requests' <= cap_seen[l]]_vars

\* C3 witness: a unit has filled the last slot its iteration observed, while
\* the cap itself has since been lowered below the number of tasks in flight.
C3_Witness ==
    \E l \in LoopIds :
        /\ loop_pc[l] = "pause"
        /\ \A j \in TaskJobs : task_pc[j] = "running"
        /\ active_task_requests = cap_seen[l]
        /\ task_request_cap < active_task_requests

\* C4: every exit of handle_realtime_request (success, failure, cancellation)
\* decrements active_realtime_requests by one and then applies the recovery
\* policy to the post-decrement value; once every admitted realtime request
\* has exited, active_realtime_requests is 0.
C4_ExitAlwaysRuns ==
    /\ [](Generating = {} => active_realtime_requests = 0)
    /\ [][RealtimeExits =>
            /\ active_realtime_requests' = active_realtime_requests - 1
            /\ active_realtime_requests' = 0
                 => task_request_cap' = max_concurrent_requests - 2
            /\ active_realtime_requests' > 0
                 => task_request_cap' \in
                      {task_request_cap,
                       Min(max_concurrent_requests - 1, task_request_cap + 1)}]_vars

\* C4 witness: all realtime requests have exited, one by failure and one by
\* cancellation, and the counter is back at 0.
C4_Witness ==
    /\ \A j \in RealtimeJobs : rt_pc[j] = "exited"
    /\ \E j \in RealtimeJobs : gen_result[j] = "raise"
    /\ \E j \in RealtimeJobs : gen_result[j] = "cancel"
    /\ active_realtime_requests = 0

\* C5: for both classes, a job whose generation call raised or timed out has
\* status failed and a latency recorded, and its execution unit changed the
\* class's counter by +1 on entry and by -1 on exit.
C5_FailureAccounting ==
    /\ [](\A j \in Jobs : gen_result[j] = "raise"
            => status[j] = "failed" /\ latency[j] \in Latencies)
    /\ [][/\ \A j \in RealtimeJobs :
               /\ (rt_pc[j] = "new" /\ rt_pc'[j] # "new")
                    => active_realtime_requests' = active_realtime_requests + 1
               /\ (gen_result[j] = "none" /\ gen_result'[j] = "raise")
                    => active_realtime_requests' = active_realtime_requests - 1
          /\ \A j \in TaskJobs :
               /\ (task_pc[j] = "created" /\ task_pc'[j] # "created")
                    => active_task_requests' = active_task_requests + 1
               /\ (gen_result[j] = "none" /\ gen_result'[j] = "raise")
                    => active_task_requests' = active_task_requests - 1]_vars

\* C5 witness: a realtime and a task job have both failed while another job
\* of each class is still in flight.
C5_Witness ==
    /\ \E j \in RealtimeJobs : gen_result[j] = "raise" /\ status[j] = "failed"
    /\ \E j \in TaskJobs : gen_result[j] = "raise" /\ status[j] = "failed"
    /\ active_realtime_requests = 1
    /\ active_task_requests = 1

\* C6: task jobs start in the order of their handle_task_request calls: a job
\* has never started while a job submitted before it has not.
C6_FifoStart ==
    \A a, b \in TaskJobs : (a < b /\ Started(b)) => Started(a)

\* C6 witness: two jobs waited in the queue together and both have started.
C6_Witness ==
    /\ \A j \in TaskJobs : Started(j)
    /\ \E j \in TaskJobs : task_pc[j] = "running"
    /\ active_realtime_requests > 0

\* C7 (as stated): in every state where active_realtime_requests is 0,
\* task_request_cap equals max_concurrent_requests - 2.
C7_IdleCapAlways ==
    active_realtime_requests = 0 => task_request_cap = max_concurrent_requests - 2

\* C7 (amended): in the state right after a realtime exit that leaves
\* active_realtime_requests at 0, task_request_cap equals
\* max_concurrent_requests - 2.
C7_IdleCapAfterExit ==
    [][(RealtimeExits /\ active_realtime_requests' = 0)
          => task_request_cap' = max_concurrent_requests - 2]_vars

\* C7 witness: the last realtime request has exited and the cap was restored
\* to max_concurrent_requests - 2 from a lower value set at admission.
C7_Witness ==
    /\ \A j \in RealtimeJobs : rt_pc[j] = "exited"
    /\ active_realtime_requests = 0
    /\ max_concurrent_requests = MaxConcurrentBound
    /\ task_request_cap = max_concurrent_requests - 2
    /\ \E j \in RealtimeJobs : gen_result[j] = "cancel"

\* C8: active_realtime_requests >= 0 and active_task_requests >= 0 in every
\* reachable state, failing executions included.
C8_CountersNonNegative ==
    active_realtime_requests >= 0 /\ active_task_requests >= 0

\* C8 witness: every execution of both classes has failed and exited.
C8_Witness ==
    /\ \A j \in Jobs : gen_result[j] = "raise"
    /\ active_realtime_requests = 0
    /\ active_task_requests = 0

\* C9: a job's status changes only pending -> processing, processing ->
\* completed and processing -> failed; completed and failed are final and
\* pending is never re-entered.
C9_StatusTransitions ==
    [][\A j \in Jobs :
          status'[j] # status[j]
          => <<status[j], status'[j]>> \in
               {<<"pending", "processing">>, <<"processing", "completed">>,
                <<"processing", "failed">>}]_vars

\* C9 witness: jobs of both classes reached each of the two terminal statuses.
C9_Witness ==
    /\ \E j \in RealtimeJobs : status[j] = "completed"
    /\ \E j \in RealtimeJobs : status[j] = "failed"
    /\ \E j \in TaskJobs : status[j] = "completed"
    /\ \E j \in TaskJobs : status[j] = "failed"

\* C10: the next arriving realtime request can always be admitted, whatever
\* the counters, the cap and the queue are, and its admission step ends at
\* the generation call with the job processing.
C10_RealtimeNeverBlocked ==
    /\ [](\A j \in RealtimeJobs :
            (rt_pc[j] = "new" /\ \A k \in RealtimeJobs : k < j => rt_pc[k] # "new")
            => ENABLED handle_realtime_request_admit(j))
    /\ [][\A j \in RealtimeJobs :
            (rt_pc[j] = "new" /\ rt_pc'[j] # "new")
            => rt_pc'[j] = "generating" /\ status'[j] = "processing"]_vars

\* C10 witness: a realtime request was admitted while the task class was over
\* its cap and a job was waiting in the queue.
C10_Witness ==
    /\ \A j \in RealtimeJobs : rt_pc[j] = "generating"
    /\ active_task_requests >= task_request_cap
    /\ task_queue # <<>>
    /\ active_realtime_requests + active_task_requests >= max_concurrent_requests

\* ---------------------------------------------------------- C11 .. C20
RealtimeAdmits == \E j \in RealtimeJobs : rt_pc[j] = "new" /\ rt_pc'[j] = "generating"
TaskUnitStep(j) == task_pc[j] \in {"created", "running"} /\ task_pc'[j] # task_pc[j]
AggregatorCycle == stats' # <<>>

\* C11: a task job whose generation call raises does not take anything else
\* down: in the step in which it fails, the dispatch loop and is_running, the
\* queue and every other job are left as they were, and the slot is given back.
C11_FailureIsolated ==
    [][\A j \in TaskJobs :
          (gen_result[j] = "none" /\ gen_result'[j] = "raise")
          => /\ loop_pc' = loop_pc
             /\ is_running' = is_running
             /\ task_queue' = task_queue
             /\ active_task_requests' = active_task_requests - 1
             /\ \A k \in Jobs \ {j} :
                   /\ status'[k] = status[k]
                   /\ gen_result'[k] = gen_result[k]
             /\ \A k \in TaskJobs \ {j} : task_pc'[k] = task_pc[k]]_vars

\* C11 witness: a job has failed, the loop is still live, and a job submitted
\* after it has been dispatched and has completed.
C11_Witness ==
    \E a, b \in TaskJobs :
        /\ a < b
        /\ gen_result[a] = "raise"
        /\ status[b] = "completed"
        /\ LiveLoops # {}
        /\ is_running

\* C12: handle_task_request appends the job at the tail of the queue and, in
\* the same step, starts one loop instance and sets is_running if is_running
\* was false; if it was true the step starts no loop.
C12_SubmitTask ==
    [][\A j \in TaskJobs :
          (task_pc[j] = "new" /\ task_pc'[j] # "new")
          => /\ task_pc'[j] = "queued"
             /\ task_queue' = Append(task_queue, j)
             /\ is_running'
             /\ IF is_running
                THEN loop_pc' = loop_pc
                ELSE \E l \in LoopIds :
                        /\ loop_pc[l] = "dead"
                        /\ loop_pc' = [loop_pc EXCEPT ![l] = "start"]]_vars

\* C12 witness: one submission started the loop and a later one, made while
\* the loop was running, only enqueued.
C12_Witness ==
    /\ Len(task_queue) = Cardinality(TaskJobs)
    /\ Cardinality(LiveLoops) = 1
    /\ \A l \in LiveLoops : loop_pc[l] = "start"
    /\ is_running

\* C13: a realtime admission never increases task_request_cap.
C13_AdmissionNeverRaisesCap ==
    [][RealtimeAdmits => task_request_cap' <= task_request_cap]_vars

\* C15: when a realtime request exits and the post-decrement count is a, the
\* cap becomes max - 2 if a = 0, min(max - 1, cap + 1) if 0 < a < 0.4 * max,
\* and is unchanged if a >= 0.4 * max.
C15_RecoveryPolicy ==
    [][RealtimeExits =>
         LET a == active_realtime_requests'
             m == max_concurrent_requests
         IN  /\ a = 0 => task_request_cap' = m - 2
             /\ (0 < a /\ 10 * a < 4 * m)
                  => /\ task_request_cap' = Min(m - 1, task_request_cap + 1)
                     /\ task_request_cap' <= task_request_cap + 1
             /\ 10 * a >= 4 * m => task_request_cap' = task_request_cap]_vars

\* C15 witness: an exit left one realtime request in flight under light load.
C15_Witness ==
    /\ \E j \in RealtimeJobs : rt_pc[j] = "exited"
    /\ active_realtime_requests = 1
    /\ 10 * active_realtime_requests < 4 * max_concurrent_requests
    /\ task_request_cap = max_concurrent_requests - 1
    /\ stats = <<>>

\* C18: an aggregator cycle that sees an average latency above the threshold
\* lowers the cap by exactly 1 if it was above 1, leaves it at 1 if it was 1,
\* and never leaves it below 1, whatever active_realtime_requests is.
C18_HighLatencyDecrement ==
    [][(AggregatorCycle /\ HighLatency)
          => /\ task_request_cap > 1 => task_request_cap' = task_request_cap - 1
             /\ task_request_cap = 1 => task_request_cap' = 1
             /\ task_request_cap' >= 1]_vars

\* C18 witness: a cycle under high latency has run while realtime requests
\* were in flight and the cap is at its floor.
C18_Witness ==
    /\ stats # <<>>
    /\ HighLatency
    /\ active_realtime_requests > 0
    /\ task_request_cap = 1

\* C19: an aggregator cycle that sees an average latency not above the
\* threshold raises the cap by exactly 1 if and only if
\* active_realtime_requests = 0 and the cap is below max - 1; otherwise it
\* leaves the cap unchanged.
C19_IdleIncrement ==
    [][(AggregatorCycle /\ ~HighLatency)
          => IF active_realtime_requests = 0
                /\ task_request_cap < max_concurrent_requests - 1
             THEN task_request_cap' = task_request_cap + 1
             ELSE task_request_cap' = task_request_cap]_vars

\* C19 witness: a cycle under low latency has run with realtime requests in
\* flight and the cap below max - 1.
C19_Witness ==
    /\ stats # <<>>
    /\ ~HighLatency
    /\ active_realtime_requests > 0
    /\ task_request_cap < max_concurrent_requests - 1
    /\ RecentCompleted # {}

\* C20: a step of a task execution unit changes only active_task_requests and
\* its own job's record: task_request_cap, active_realtime_requests, the queue
\* and is_running are left unchanged, on success and on failure.
C20_TaskUnitFrame ==
    [][\A j \in TaskJobs :
          TaskUnitStep(j)
          => /\ task_request_cap' = task_request_cap
             /\ active_realtime_requests' = active_realtime_requests
             /\ task_queue' = task_queue
             /\ is_running' = is_running
             /\ \A k \in Jobs \ {j} :
                   status'[k] = status[k] /\ latency'[k] = latency[k]]_vars

\* C20 witness: units have ended by success and by failure while the cap was
\* away from its idle value and a realtime request was in flight.
C20_Witness ==
    /\ \E j \in TaskJobs : gen_result[j] = "ok"
    /\ \E j \in TaskJobs : gen_result[j] = "raise"
    /\ active_task_requests = 0
    /\ active_realtime_requests > 0
    /\ task_request_cap # max_concurrent_requests - 2

\* round(n / 10) as Python's round computes it (ties go to the even integer)
RoundTenths(n) ==
    LET q == n \div 10
        r == n % 10
    IN  IF r < 5 THEN q
        ELSE IF r > 5 THEN q + 1
        ELSE IF q % 2 = 0 THEN q ELSE q + 1

\* int(n / 10): the fraction is dropped
TruncTenths(n) == n \div 10

\* the cap the load-shedding policy prescribes for a realtime count a >= 1 and
\* limit m, with the fractions of m converted by conv
ShedCap(a, m, conv(_)) ==
    IF 10 * a >= 7 * m THEN Max(1, conv(m))
    ELSE IF 10 * a >= 4 * m THEN Max(2, conv(3 * m))
    ELSE Max(3, m - a - 1)

\* C14 (as stated): after a realtime admission raises the count to a, the cap
\* is max(1, round(0.1 * max)) if a >= 0.7 * max, else max(2, round(0.3 * max))
\* if a >= 0.4 * max, else max(3, max - a - 1).
C14_LoadShedRounded ==
    [][RealtimeAdmits =>
         task_request_cap' = ShedCap(active_realtime_requests',
                                     max_concurrent_requests, RoundTenths)]_vars

\* C14 (amended): the same with the fractions truncated, int(0.1 * max) and
\* int(0.3 * max), for every max and every a.
C14_LoadShedTruncated ==
    [][RealtimeAdmits =>
         /\ active_realtime_requests' = active_realtime_requests + 1
         /\ task_request_cap' = ShedCap(active_realtime_requests',
                                        max_concurrent_requests, TruncTenths)]_vars

\* C14 witness: with max = 9 an admission has put the count in the moderate
\* band, where round(2.7) = 3 and int(2.7) = 2 differ, and the cap is 2.
C14_Witness ==
    /\ max_concurrent_requests = 9
    /\ active_realtime_requests = 4
    /\ \A j \in RealtimeJobs : rt_pc[j] # "exited"
    /\ stats = <<>>
    /\ task_request_cap = 2

\* C16: with max = 10, once 8 realtime requests have been admitted and none
\* has completed the cap is 1; the step in which the last of the 8 completes,
\* in any completion order, leaves the cap at 8.
C16_Burst ==
    /\ [](( /\ max_concurrent_requests = 10
            /\ Cardinality({j \in RealtimeJobs : rt_pc[j] = "generating"}) = 8
            /\ \A j \in RealtimeJobs : rt_pc[j] # "exited")
          => task_request_cap = 1)
    /\ [][( /\ max_concurrent_requests = 10
            /\ RealtimeExits
            /\ Cardinality({j \in RealtimeJobs : status'[j] = "completed"}) = 8
            /\ \A j \in RealtimeJobs : rt_pc'[j] # "generating")
          => task_request_cap' = 8]_vars

\* C16 witness: max = 10, 8 requests were admitted and all 8 have completed,
\* the last of them in the step just taken.
C16_Witness ==
    /\ max_concurrent_requests = 10
    /\ Cardinality({j \in RealtimeJobs : status[j] = "completed"}) = 8
    /\ \A j \in RealtimeJobs : rt_pc[j] # "generating"
    /\ active_realtime_requests = 0
    /\ task_request_cap = 8

InFlight == {j \in TaskJobs : task_pc[j] \in {"created", "running"}}
Finished == {j \in TaskJobs : task_pc[j] = "exited"}

\* C17: with 5 task jobs submitted, no realtime activity and the cap staying
\* at 3, never more than 3 task executions are in flight at once, a job beyond
\* the third (the 4th, the 5th) starts only after earlier jobs have finished,
\* and all the jobs eventually reach "completed".
C17_Backlog ==
    /\ [](/\ task_request_cap = ScenarioCap
          /\ Cardinality(InFlight) <= ScenarioCap
          /\ active_task_requests <= ScenarioCap
          /\ \A j \in InFlight \cup Finished :
                j > ScenarioCap
                => /\ \E k \in Finished : k < j
                   /\ Cardinality(Finished \ {j}) >= j - ScenarioCap)
    /\ <>[](\A j \in TaskJobs : status[j] = "completed")

\* C17 witness: the cap's worth of jobs is in flight while the rest of the
\* backlog waits in the queue behind a loop that is backing off.
C17_Witness ==
    /\ Cardinality(InFlight) = ScenarioCap
    /\ active_task_requests = ScenarioCap
    /\ Len(task_queue) = ScenarioTasks - ScenarioCap
    /\ \E l \in LoopIds : loop_pc[l] = "backoff"

\* ---------------------------------------------------------- C21 .. C30
Dequeues == Len(task_queue') < Len(task_queue)
Terminal == {"completed", "failed"}
UnitExited(j) ==
    \/ j \in RealtimeJobs /\ rt_pc[j] = "exited"
    \/ j \in TaskJobs /\ task_pc[j] = "exited"
Rank(pc) ==
    CASE pc = "new" -> 0 [] pc = "queued" -> 1 [] pc = "created" -> 2
      [] pc = "running" -> 3 [] OTHER -> 4
Occurrences(q, j) == Cardinality({i \in 1..Len(q) : q[i] = j})

\* C22: the dispatch loop takes a job from the queue only in an iteration that
\* finds active_task_requests < task_request_cap; a step that shrinks the cap
\* (a realtime admission, an aggregator cycle) leaves the running tasks running
\* and the queue as it is.
C22_NoDequeueAtCap ==
    [][/\ Dequeues => /\ active_task_requests < task_request_cap
                      /\ Len(task_queue') = Len(task_queue) - 1
       /\ (\A j \in TaskJobs : task_pc'[j] = task_pc[j]) => task_queue' = task_queue
       /\ task_request_cap' < task_request_cap
            => /\ task_queue' = task_queue
               /\ task_pc' = task_pc
               /\ active_task_requests' = active_task_requests]_vars

\* C22 witness: realtime admissions have left the cap at or below the number
\* of tasks in flight, and the loop is backing off with a job still queued.
C22_Witness ==
    /\ active_realtime_requests > 0
    /\ active_task_requests > 0
    /\ active_task_requests >= task_request_cap
    /\ task_queue # <<>>
    /\ \E l \in LoopIds : loop_pc[l] = "backoff"
    /\ \A j \in RealtimeJobs : rt_pc[j] # "exited"

\* C23: when the loop makes a cap check, every unit launched before has
\* already counted itself: the counter equals the number of units in flight,
\* so a job is launched only into a slot that is really free.
C23_UnitCountsBeforeNextCheck ==
    [][\A l \in LoopIds :
          (loop_pc[l] # "dead" /\ (loop_pc'[l] # loop_pc[l] \/ Dequeues
                                   \/ cap_seen'[l] # cap_seen[l]))
          => /\ \A j \in TaskJobs : task_pc[j] # "created"
             /\ active_task_requests =
                  Cardinality({j \in TaskJobs : task_pc[j] = "running"})
             /\ Dequeues =>
                  Cardinality({j \in TaskJobs :
                                 task_pc[j] \in {"created", "running"}})
                    < task_request_cap]_vars

\* C23 witness: the launch into the last free slot has been counted and the
\* next iteration backed off with a job still queued.
C23_Witness ==
    /\ task_queue # <<>>
    /\ \E l \in LoopIds : loop_pc[l] = "backoff"
    /\ active_task_requests = task_request_cap
    /\ active_task_requests =
         Cardinality({j \in TaskJobs : task_pc[j] = "running"})
    /\ active_realtime_requests = 0

\* C24: is_running is true exactly when a dispatch loop instance is live; the
\* loop ends only in an iteration that finds the queue empty, and that step
\* clears the flag.
C24_FlagIffLoop ==
    /\ [](is_running <=> LiveLoops # {})
    /\ [][\A l \in LoopIds :
             (loop_pc[l] # "dead" /\ loop_pc'[l] = "dead")
             => task_queue = <<>> /\ ~is_running']_vars

\* C24 witness: a loop instance ended after dispatching a job, and a later
\* submission has started a fresh one.
C24_Witness ==
    /\ is_running
    /\ \E l \in LoopIds : loop_pc[l] = "start"
    /\ \E j \in TaskJobs : task_pc[j] \in {"running", "exited"}

\* C25: once a job's execution unit has exited the job is in a terminal
\* status that agrees with the outcome: "completed" if the call returned,
\* "failed" if it ended by failure, timeout or cancellation; never "processing".
C25_TerminalAfterExit ==
    \A j \in Jobs :
        UnitExited(j)
        => /\ status[j] \in Terminal
           /\ gen_result[j] = "ok" <=> status[j] = "completed"

\* C26: every accepted task job is at all times in exactly one of the queue
\* (once), in flight, or finished; it is never taken from the queue twice and
\* its generation call is never started twice.
C26_ExactlyOnePlace ==
    /\ [](\A j \in TaskJobs :
            /\ task_pc[j] = "queued" <=> Occurrences(task_queue, j) = 1
            /\ task_pc[j] # "queued" => Occurrences(task_queue, j) = 0)
    /\ [][\A j \in TaskJobs :
             /\ task_pc'[j] # task_pc[j] => Rank(task_pc'[j]) = Rank(task_pc[j]) + 1
             /\ gen_result[j] # "none" => gen_result'[j] = gen_result[j]]_vars

\* C26 witness: one job has failed and is finished, the next is in flight.
C26_Witness ==
    \E a, b \in TaskJobs :
        /\ task_pc[a] = "exited" /\ gen_result[a] = "raise"
        /\ task_pc[b] = "running"
        /\ task_queue = <<>>

\* C28: the average that drives the feedback is taken over the "completed"
\* jobs only and is 0 when there are none, so a cycle lowers the cap only if
\* the completed jobs' latencies average above the threshold; failed jobs,
\* however slow, never lower it.
C28_FailedNeverCount ==
    [][AggregatorCycle =>
         LET done == {j \in Jobs : status[j] = "completed"}
         IN  /\ done = {} => task_request_cap' >= task_request_cap
             /\ task_request_cap' < task_request_cap
                  => /\ done # {}
                     /\ SumLatency(done) > latency_threshold * Cardinality(done)]_vars

\* C28 witness: a cycle has run while the only finished job was a failed one
\* with a latency above the threshold, and the cap is still at max - 1.
C28_Witness ==
    /\ stats # <<>>
    /\ \E j \in Jobs : status[j] = "failed" /\ latency[j] > latency_threshold
    /\ \A j \in Jobs : status[j] # "completed"
    /\ task_request_cap = max_concurrent_requests - 1
    /\ max_concurrent_requests > 2

\* C29: an aggregator cycle moves task_request_cap by at most 1 and writes one
\* snapshot holding the two counters and the queue length of that instant; it
\* leaves the counters, the queue, is_running and every job's status unchanged.
C29_AggregatorFrame ==
    [][AggregatorCycle =>
         /\ task_request_cap' - task_request_cap \in {-1, 0, 1}
         /\ stats' = <<active_realtime_requests, active_task_requests,
                       Len(task_queue)>>
         /\ UNCHANGED <<active_realtime_requests, active_task_requests,
                        task_queue, is_running, status, loop_pc, rt_pc,
                        task_pc>>]_vars

\* C29 witness: a snapshot was written while a realtime request and a task
\* were in flight and a job was queued.
C29_Witness ==
    /\ stats # <<>>
    /\ stats[1] > 0 /\ stats[2] > 0 /\ stats[3] > 0

TaskIds == (NumRealtime + 1)..(NumRealtime + NumTask)

C27_IdleReclaim ==
    /\ [][(AggregatorCycle /\ active_realtime_requests = 0 /\ ~HighLatency)
             => task_request_cap' =
                  Min(max_concurrent_requests - 1, task_request_cap + 1)]_vars
    /\ [][( /\ active_realtime_requests = 0
            /\ ~HighLatency
            /\ task_request_cap = max_concurrent_requests - 1
            /\ ~RealtimeAdmits)
          => task_request_cap' = task_request_cap]_vars
    /\ (active_realtime_requests = 0 /\ ~HighLatency)
         ~> \/ task_request_cap = max_concurrent_requests - 1
            \/ active_realtime_requests > 0
            \/ HighLatency

\* C27 witness: after the last realtime request exited (cap max - 2 or, once
\* lowered, less) aggregator cycles have brought the idle cap to max - 1.
C27_Witness ==
    /\ \E j \in RealtimeJobs : rt_pc[j] = "exited"
    /\ active_realtime_requests = 0
    /\ ~HighLatency
    /\ stats # <<>>
    /\ max_concurrent_requests > 2
    /\ task_request_cap = max_concurrent_requests - 1

\* C30: once the client's counter has reached 100 within its window, a
\* further request from that client is answered with status 429 and is not
\* forwarded to the downstream handler.
C30_LimitEnforced ==
    (rl_last # NoRequest /\ rl_last.read >= max_requests)
    => (rl_last.response = "429" /\ ~rl_last.forwarded)

\* ---------------------------------------------------------- C31 .. C33
TaskExits == \E j \in TaskJobs : task_pc[j] = "running" /\ task_pc'[j] = "exited"

\* C31: whenever the queue is non-empty, is_running is true and a dispatch
\* loop instance is live: no interleaving of submissions with the loop's
\* empty-queue shutdown strands a job in the queue.
C31_QueuedImpliesLoop ==
    task_queue # <<>> => (is_running /\ LiveLoops # {})

\* C31 witness: every job dispatched so far has finished, the loop that
\* dispatched it has shut down, and a job submitted since sits in the queue
\* behind a freshly started loop.
C31_Witness ==
    /\ task_queue # <<>>
    /\ \E j \in TaskJobs : task_pc[j] = "exited"
    /\ \A j \in TaskJobs : task_pc[j] \in {"new", "queued", "exited"}
    /\ \E l \in LoopIds : loop_pc[l] = "start"
    /\ Cardinality(LiveLoops) = 1

\* C32: active_realtime_requests is the number of realtime executions between
\* their increment and their final decrement, active_task_requests the same
\* for task executions; so every decrement starts from a value of at least 1
\* and the max(0, ...) clamp never changes a value.
C32_CountersExact ==
    /\ [](/\ active_realtime_requests =
               Cardinality({j \in RealtimeJobs : rt_pc[j] = "generating"})
          /\ active_task_requests =
               Cardinality({j \in TaskJobs : task_pc[j] = "running"}))
    /\ [][/\ RealtimeExits => /\ active_realtime_requests >= 1
                              /\ active_realtime_requests' =
                                   active_realtime_requests - 1
          /\ TaskExits => /\ active_task_requests >= 1
                          /\ active_task_requests' = active_task_requests - 1]_vars

\* C32 witness: on each path one execution has run its decrement, by failure
\* on one of them, while another execution is still counted.
C32_Witness ==
    /\ \E j \in RealtimeJobs : rt_pc[j] = "exited"
    /\ \E j \in TaskJobs : task_pc[j] = "exited"
    /\ \E j \in Jobs : gen_result[j] = "raise"
    /\ active_realtime_requests = 1
    /\ active_task_requests = 1

\* C33: for a fixed limit the cap set by the load-shedding policy is
\* non-increasing in the realtime count: the cap an admission sets is never
\* larger than the cap the policy sets at any lower count, nor smaller than
\* the one it sets at any higher count.
C33_ShedMonotone ==
    [][RealtimeAdmits =>
         LET a == active_realtime_requests'
             m == max_concurrent_requests
         IN  /\ \A lower \in 1..a :
                   task_request_cap' <= LoadShed(lower, m, task_request_cap)
             /\ \A higher \in a..ScenarioRealtime :
                   LoadShed(higher, m, task_request_cap) <= task_request_cap'
             /\ \A lo, hi \in 1..ScenarioRealtime :
                   lo <= hi => LoadShed(hi, m, task_request_cap)
                                 <= LoadShed(lo, m, task_request_cap)]_vars

\* C33 witness: with max = 10 a fourth admission, the first in the moderate
\* band, has brought the cap from the light band's 6 and 7 down to 3.
C33_Witness ==
    /\ max_concurrent_requests = 10
    /\ active_realtime_requests = 4
    /\ \A j \in RealtimeJobs : rt_pc[j] # "exited"
    /\ stats = <<>>
    /\ task_request_cap = 3

====
